---- MODULE Spec2Model ----
(***************************************************************************)
(* Model of decision_engine.py: the rule-based transaction risk engine.    *)
(* The module-level configuration block, run() and assess_row() with every *)
(* assessor they call are modelled as they are written in the source.      *)
(***************************************************************************)
EXTENDS Integers, Sequences, FiniteSets, TLC

VARIABLES
    pc,              \* position of the process: "import", "loaded", "ready", "returned"
    env,             \* process environment: REJECT_AT and REVIEW_AT
    DEFAULT_CONFIG,  \* the module-level configuration dictionary (mutated at import)
    cfg,             \* run(): cfg = config or DEFAULT_CONFIG
    row,             \* the row assess_row is called with
    is_blocked,      \* assess_row locals
    block_reasons,
    assessments,
    score,
    reasons,
    decision,
    res,             \* the dictionary assess_row returned
    calls            \* the functions assess_row called, in call order

vars == <<pc, env, DEFAULT_CONFIG, cfg, row, is_blocked, block_reasons,
          assessments, score, reasons, decision, res, calls>>

----------------------------------------------------------------------------
(* Bounds of the model *)

MaxChargeback == 2   \* chargeback_count ranges over 0..MaxChargeback
MaxFrequency == 3    \* customer_txn_30d ranges over 2..MaxFrequency (and 1, 5 in the named rows)

----------------------------------------------------------------------------
(* Constants of the program *)

DECISION_ACCEPTED == "ACCEPTED"
DECISION_IN_REVIEW == "IN_REVIEW"
DECISION_REJECTED == "REJECTED"

\* The literal DEFAULT_CONFIG is bound to before the override block runs.
DefaultConfigLiteral ==
    [ amount_thresholds |->
          ("digital" :> 2500) @@ ("physical" :> 6000) @@
          ("subscription" :> 1500) @@ ("_default" :> 4000),
      latency_ms_extreme |-> 2500,
      chargeback_hard_block |-> 2,
      score_weights |->
          [ ip_risk |-> ("low" :> 0) @@ ("medium" :> 2) @@ ("high" :> 4),
            email_risk |-> ("low" :> 0) @@ ("medium" :> 1) @@ ("high" :> 3) @@
                           ("new_domain" :> 2),
            device_fingerprint_risk |-> ("low" :> 0) @@ ("medium" :> 2) @@ ("high" :> 4),
            user_reputation |-> ("trusted" :> -2) @@ ("recurrent" :> -1) @@
                                ("new" :> 0) @@ ("high_risk" :> 4),
            night_hour |-> 1,
            geo_mismatch |-> 2,
            high_amount |-> 2,
            latency_extreme |-> 2,
            new_user_high_amount |-> 2 ],
      score_to_decision |-> [ reject_at |-> 10, review_at |-> 4 ] ]

----------------------------------------------------------------------------
(* Python primitives *)

\* dict.get(key, default)
Get(d, k, default) == IF k \in DOMAIN d THEN d[k] ELSE default

\* str.lower() on the strings the model feeds the engine
Lower(s) ==
    CASE s = "HIGH" -> "high"
      [] s = "Trusted" -> "trusted"
      [] s = "NEW" -> "new"
      [] s = "Digital" -> "digital"
      [] s = "MX" -> "mx"
      [] s = "US" -> "us"
      [] OTHER -> s

\* str.upper() on the strings the model feeds the engine
Upper(s) ==
    CASE s = "mx" -> "MX"
      [] s = "us" -> "US"
      [] OTHER -> s

\* str(float): the amounts of the model are whole numbers of pesos
FloatStr(a) == ToString(a) \o ".0"

\* An environment value is None or a string, held as a sequence of characters.
None == [set |-> FALSE, chars |-> <<>>]
Str(chars) == [set |-> TRUE, chars |-> chars]

Digits == ("0" :> 0) @@ ("1" :> 1) @@ ("2" :> 2) @@ ("3" :> 3) @@ ("4" :> 4) @@
          ("5" :> 5) @@ ("6" :> 6) @@ ("7" :> 7) @@ ("8" :> 8) @@ ("9" :> 9)

\* int(s) raises ValueError unless s is an optional sign followed by digits
Unsigned(chars) ==
    IF Len(chars) > 0 /\ chars[1] \in {"+", "-"} THEN Tail(chars) ELSE chars

IntRaises(chars) ==
    \/ Len(Unsigned(chars)) = 0
    \/ \E i \in 1..Len(Unsigned(chars)) : Unsigned(chars)[i] \notin DOMAIN Digits

RECURSIVE DigitsValue(_)
DigitsValue(ds) ==
    IF Len(ds) = 0 THEN 0
    ELSE 10 * DigitsValue(SubSeq(ds, 1, Len(ds) - 1)) + Digits[ds[Len(ds)]]

int(chars) ==
    IF Len(chars) > 0 /\ chars[1] = "-"
    THEN 0 - DigitsValue(Unsigned(chars))
    ELSE DigitsValue(Unsigned(chars))

\* ";".join(list)
RECURSIVE Join(_)
Join(rs) ==
    IF Len(rs) = 0 THEN ""
    ELSE IF Len(rs) = 1 THEN rs[1]
    ELSE rs[1] \o ";" \o Join(Tail(rs))

----------------------------------------------------------------------------
(* The environment override block, lines 35-45 *)

\* The body of the try block; an exception raised by int() leaves the
\* assignments made before it in place and skips the rest (except: pass).
OverrideBlock(c, rej, rev) ==
    IF rej.set /\ IntRaises(rej.chars) THEN c
    ELSE LET c1 == IF rej.set
                   THEN [c EXCEPT !.score_to_decision.reject_at = int(rej.chars)]
                   ELSE c
         IN IF rev.set /\ IntRaises(rev.chars) THEN c1
            ELSE IF rev.set
                 THEN [c1 EXCEPT !.score_to_decision.review_at = int(rev.chars)]
                 ELSE c1

----------------------------------------------------------------------------
(* The assessors *)

\* is_night with "and" written for "or"
is_night_and(hour) == hour >= 22 /\ hour <= 5

is_night(hour) == hour >= 22 \/ hour <= 5

\* high_amount with a strict comparison
high_amount_strict(amount, product_type, thresholds) ==
    LET t == Get(thresholds, product_type, Get(thresholds, "_default", 0))
    IN amount > t

high_amount(amount, product_type, thresholds) ==
    LET t == Get(thresholds, product_type, Get(thresholds, "_default", 0))
    IN amount >= t

\* _check_hard_block comparing ip_risk without lower-casing it
_check_hard_block_raw(r, c) ==
    LET chargeback_count == Get(r, "chargeback_count", 0)
        ip_risk == Get(r, "ip_risk", "low")
    IN IF chargeback_count >= c.chargeback_hard_block /\ ip_risk = "high"
       THEN <<TRUE, <<"hard_block:chargebacks>=2+ip_high">> >>
       ELSE <<FALSE, <<>> >>

_check_hard_block(r, c) ==
    LET chargeback_count == Get(r, "chargeback_count", 0)
        ip_risk == Lower(Get(r, "ip_risk", "low"))
    IN IF chargeback_count >= c.chargeback_hard_block /\ ip_risk = "high"
       THEN <<TRUE, <<"hard_block:chargebacks>=2+ip_high">> >>
       ELSE <<FALSE, <<>> >>

risk_fields == <<"ip_risk", "email_risk", "device_fingerprint_risk">>

\* The for loop of _assess_categorical_risks from its i-th field on.
RECURSIVE CategoricalLoop(_, _, _, _)
CategoricalLoop(r, c, i, acc) ==
    IF i > Len(risk_fields) THEN acc
    ELSE LET field == risk_fields[i]
             mapping == c.score_weights[field]
             value == Lower(Get(r, field, "low"))
             points == Get(mapping, value, 0)
         IN CategoricalLoop(r, c, i + 1,
                IF points # 0
                THEN << acc[1] + points,
                        Append(acc[2], field \o ":" \o value \o "(+" \o
                                       ToString(points) \o ")") >>
                ELSE acc)

_assess_categorical_risks(r, c) == CategoricalLoop(r, c, 1, <<0, <<>> >>)

_assess_user_reputation(r, c) ==
    LET reputation == Lower(Get(r, "user_reputation", "new"))
        points == Get(c.score_weights.user_reputation, reputation, 0)
        sign == IF points >= 0 THEN "+" ELSE ""
    IN << points,
          IF points # 0
          THEN << "user_reputation:" \o reputation \o "(" \o sign \o
                  ToString(points) \o ")" >>
          ELSE <<>> >>

_assess_temporal_risk(r, c) ==
    LET hour == Get(r, "hour", 12)
        points == c.score_weights.night_hour
    IN IF is_night(hour)
       THEN << points, << "night_hour:" \o ToString(hour) \o "(+" \o
                          ToString(points) \o ")" >> >>
       ELSE << 0, <<>> >>

_assess_geographical_risk(r, c) ==
    LET bin_country == Upper(Get(r, "bin_country", ""))
        ip_country == Upper(Get(r, "ip_country", ""))
        points == c.score_weights.geo_mismatch
    IN IF bin_country # "" /\ ip_country # "" /\ bin_country # ip_country
       THEN << points, << "geo_mismatch:" \o bin_country \o "!=" \o ip_country \o
                          "(+" \o ToString(points) \o ")" >> >>
       ELSE << 0, <<>> >>

\* _assess_amount_risk folding the new-user bonus into the high_amount reason
_assess_amount_risk_folded(r, c) ==
    LET amount == Get(r, "amount_mxn", 0)
        product_type == Lower(Get(r, "product_type", "_default"))
        reputation == Lower(Get(r, "user_reputation", "new"))
        points == c.score_weights.high_amount
        extra_points == c.score_weights.new_user_high_amount
        total == IF reputation = "new" THEN points + extra_points ELSE points
    IN IF high_amount(amount, product_type, c.amount_thresholds)
       THEN << total, << "high_amount:" \o product_type \o ":" \o
                         FloatStr(amount) \o "(+" \o ToString(total) \o ")" >> >>
       ELSE << 0, <<>> >>

_assess_amount_risk(r, c) ==
    LET amount == Get(r, "amount_mxn", 0)
        product_type == Lower(Get(r, "product_type", "_default"))
        reputation == Lower(Get(r, "user_reputation", "new"))
        points == c.score_weights.high_amount
        extra_points == c.score_weights.new_user_high_amount
        high == << points, << "high_amount:" \o product_type \o ":" \o
                              FloatStr(amount) \o "(+" \o ToString(points) \o ")" >> >>
    IN IF high_amount(amount, product_type, c.amount_thresholds)
       THEN IF reputation = "new"
            THEN << high[1] + extra_points,
                    Append(high[2], "new_user_high_amount(+" \o
                                    ToString(extra_points) \o ")") >>
            ELSE high
       ELSE << 0, <<>> >>

_assess_latency_risk(r, c) ==
    LET latency == Get(r, "latency_ms", 0)
        points == c.score_weights.latency_extreme
    IN IF latency >= c.latency_ms_extreme
       THEN << points, << "latency_extreme:" \o ToString(latency) \o "ms(+" \o
                          ToString(points) \o ")" >> >>
       ELSE << 0, <<>> >>

\* _apply_frequency_buffer without the score > 0 condition
_apply_frequency_buffer_unfloored(r, s, rs) ==
    LET reputation == Lower(Get(r, "user_reputation", "new"))
        frequency == Get(r, "customer_txn_30d", 0)
    IN IF reputation \in {"recurrent", "trusted"} /\ frequency >= 3
       THEN << s - 1, Append(rs, "frequency_buffer(-1)") >>
       ELSE << s, rs >>

_apply_frequency_buffer(r, s, rs) ==
    LET reputation == Lower(Get(r, "user_reputation", "new"))
        frequency == Get(r, "customer_txn_30d", 0)
    IN IF reputation \in {"recurrent", "trusted"} /\ frequency >= 3 /\ s > 0
       THEN << s - 1, Append(rs, "frequency_buffer(-1)") >>
       ELSE << s, rs >>

\* _determine_decision testing review_at before reject_at
_determine_decision_review_first(s, c) ==
    IF s >= c.score_to_decision.review_at THEN DECISION_IN_REVIEW
    ELSE IF s >= c.score_to_decision.reject_at THEN DECISION_REJECTED
    ELSE DECISION_ACCEPTED

_determine_decision(s, c) ==
    IF s >= c.score_to_decision.reject_at THEN DECISION_REJECTED
    ELSE IF s >= c.score_to_decision.review_at THEN DECISION_IN_REVIEW
    ELSE DECISION_ACCEPTED

\* The list assess_row builds by calling the six assessors in order.
Assessments(r, c) ==
    << _assess_categorical_risks(r, c),
       _assess_user_reputation(r, c),
       _assess_temporal_risk(r, c),
       _assess_geographical_risk(r, c),
       _assess_amount_risk(r, c),
       _assess_latency_risk(r, c) >>

AssessorNames ==
    << "_assess_categorical_risks", "_assess_user_reputation",
       "_assess_temporal_risk", "_assess_geographical_risk",
       "_assess_amount_risk", "_assess_latency_risk" >>

\* The for loop of assess_row over assessments[i..]: score += points,
\* reasons.extend(assessment_reasons).
RECURSIVE SumLoop(_, _, _)
SumLoop(as, i, acc) ==
    IF i > Len(as) THEN acc
    ELSE SumLoop(as, i + 1, << acc[1] + as[i][1], acc[2] \o as[i][2] >>)

----------------------------------------------------------------------------
(* Inputs *)

\* Values REJECT_AT and REVIEW_AT take in the environment of the process.
RejectEnv == { None, Str(<<"1", "2">>), Str(<<"2">>), Str(<<"x">>) }
ReviewEnv == { None, Str(<<"3">>), Str(<<"x">>) }

\* Configurations a caller passes to run(); Unset is config=None.
Unset == [given |-> FALSE, value |-> DefaultConfigLiteral]
RunConfigs ==
    { Unset,
      [given |-> TRUE,
       value |-> [DefaultConfigLiteral EXCEPT !.chargeback_hard_block = 1]] }

GeoPairs == { <<"mx", "MX">>, <<"mx", "US">>, <<"", "US">> }
AmountPairs == { <<"Digital", 500>>, <<"Digital", 2500>>,
                 <<"gift", 3000>>, <<"gift", 4000>> }

RiskPairs == { <<"low", "low">>, <<"new_domain", "low">>, <<"new_domain", "high">> }
TimePairs == { <<5, 180>>, <<14, 180>>, <<14, 2500>> }

GridRows ==
    { [ chargeback_count |-> cb, ip_risk |-> ip, email_risk |-> rk[1],
        device_fingerprint_risk |-> rk[2], user_reputation |-> rep, hour |-> tm[1],
        bin_country |-> geo[1], ip_country |-> geo[2],
        product_type |-> am[1], amount_mxn |-> am[2],
        latency_ms |-> tm[2], customer_txn_30d |-> fr ] :
        cb \in 0..MaxChargeback,
        ip \in {"low", "medium", "HIGH"},
        rk \in RiskPairs,
        rep \in {"new", "Trusted", "recurrent", "high_risk"},
        tm \in TimePairs,
        geo \in GeoPairs,
        am \in AmountPairs,
        fr \in 2..MaxFrequency }

\* The transactions of tests/test_app.py and of the documented scenarios.
RowInReview ==
    [ amount_mxn |-> 5200, customer_txn_30d |-> 1, chargeback_count |-> 0,
      hour |-> 23, product_type |-> "digital", latency_ms |-> 180,
      user_reputation |-> "new", device_fingerprint_risk |-> "low",
      ip_risk |-> "medium", email_risk |-> "new_domain",
      bin_country |-> "MX", ip_country |-> "MX" ]

RowHardBlock ==
    [ amount_mxn |-> 300, customer_txn_30d |-> 0, chargeback_count |-> 2,
      hour |-> 12, product_type |-> "digital", latency_ms |-> 100,
      user_reputation |-> "new", device_fingerprint_risk |-> "low",
      ip_risk |-> "high", email_risk |-> "low",
      bin_country |-> "MX", ip_country |-> "MX" ]

RowCountryMismatch ==
    [ amount_mxn |-> 3000, customer_txn_30d |-> 5, chargeback_count |-> 0,
      hour |-> 14, product_type |-> "digital", latency_ms |-> 150,
      user_reputation |-> "trusted", device_fingerprint_risk |-> "low",
      ip_risk |-> "low", email_risk |-> "low",
      bin_country |-> "MX", ip_country |-> "US" ]

\* A row with only two columns: every other field takes its default.
RowSparse == [ amount_mxn |-> 500, product_type |-> "digital" ]

RowSparseTrusted == [ user_reputation |-> "trusted", customer_txn_30d |-> 5 ]

RowAllSignals ==
    [ amount_mxn |-> 6000, customer_txn_30d |-> 0, chargeback_count |-> 1,
      hour |-> 22, product_type |-> "physical", latency_ms |-> 2500,
      user_reputation |-> "NEW", device_fingerprint_risk |-> "medium",
      ip_risk |-> "high", email_risk |-> "medium",
      bin_country |-> "us", ip_country |-> "MX" ]

Rows ==
    GridRows \cup { RowInReview, RowHardBlock, RowCountryMismatch, RowSparse,
                    RowSparseTrusted, RowAllSignals }

NoRow == [ unset |-> TRUE ]
NoResult == [ decision |-> "", risk_score |-> 0, reasons |-> "" ]

----------------------------------------------------------------------------
(* The process *)

Init ==
    /\ pc = "import"
    /\ env \in [ REJECT_AT : RejectEnv, REVIEW_AT : ReviewEnv ]
    /\ DEFAULT_CONFIG = DefaultConfigLiteral
    /\ cfg = DefaultConfigLiteral
    /\ row = NoRow
    /\ is_blocked = FALSE
    /\ block_reasons = <<>>
    /\ assessments = <<>>
    /\ score = 0
    /\ reasons = <<>>
    /\ decision = ""
    /\ res = NoResult
    /\ calls = <<>>

\* Importing the module runs the override block once.
ImportModule ==
    /\ pc = "import"
    /\ DEFAULT_CONFIG' = OverrideBlock(DEFAULT_CONFIG, env.REJECT_AT, env.REVIEW_AT)
    /\ pc' = "loaded"
    /\ UNCHANGED <<env, cfg, row, is_blocked, block_reasons, assessments, score,
                   reasons, decision, res, calls>>

\* run(): cfg = config or DEFAULT_CONFIG
Run(config) ==
    /\ pc = "loaded"
    /\ cfg' = IF config.given THEN config.value ELSE DEFAULT_CONFIG
    /\ pc' = "ready"
    /\ UNCHANGED <<env, DEFAULT_CONFIG, row, is_blocked, block_reasons,
                   assessments, score, reasons, decision, res, calls>>

\* assess_row(row, cfg) on a row the hard-block check stops.
AssessRowBlocked(r) ==
    /\ _check_hard_block(r, cfg)[1]
    /\ row' = r
    /\ is_blocked' = TRUE
    /\ block_reasons' = _check_hard_block(r, cfg)[2]
    /\ res' = [ decision |-> DECISION_REJECTED,
                risk_score |-> 100,
                reasons |-> Join(block_reasons') ]
    /\ calls' = << "_check_hard_block" >>
    /\ pc' = "returned"
    /\ UNCHANGED <<env, DEFAULT_CONFIG, cfg, assessments, score, reasons, decision>>

\* assess_row(row, cfg) on a row that is scored.
AssessRowScored(r) ==
    /\ ~ _check_hard_block(r, cfg)[1]
    /\ row' = r
    /\ is_blocked' = FALSE
    /\ block_reasons' = _check_hard_block(r, cfg)[2]
    /\ assessments' = Assessments(r, cfg)
    /\ LET summed == SumLoop(assessments', 1, << 0, <<>> >>)
           buffered == _apply_frequency_buffer(r, summed[1], summed[2])
       IN /\ score' = buffered[1]
          /\ reasons' = buffered[2]
    /\ decision' = _determine_decision(score', cfg)
    /\ res' = [ decision |-> decision',
                risk_score |-> score',
                reasons |-> Join(reasons') ]
    /\ calls' = << "_check_hard_block" >> \o AssessorNames \o
                << "_apply_frequency_buffer", "_determine_decision" >>
    /\ pc' = "returned"
    /\ UNCHANGED <<env, DEFAULT_CONFIG, cfg>>

\* run() calls assess_row(row, cfg) on a row of the input.
AssessRow ==
    /\ pc = "ready"
    /\ \E r \in Rows :
          \/ AssessRowBlocked(r)
          \/ AssessRowScored(r)

\* The loop of run() moves on to the next row; the locals of the call are gone.
NextRow ==
    /\ pc = "returned"
    /\ pc' = "ready"
    /\ row' = NoRow
    /\ is_blocked' = FALSE
    /\ block_reasons' = <<>>
    /\ assessments' = <<>>
    /\ score' = 0
    /\ reasons' = <<>>
    /\ decision' = ""
    /\ res' = NoResult
    /\ calls' = <<>>
    /\ UNCHANGED <<env, DEFAULT_CONFIG, cfg>>

Next ==
    \/ ImportModule
    \/ \E config \in RunConfigs : Run(config)
    \/ AssessRow
    \/ NextRow

Spec == Init /\ [][Next]_vars

----------------------------------------------------------------------------
(* Vocabulary of the properties *)

Returned == pc = "returned"
Scored == Returned /\ ~ is_blocked
DefaultConfiguration == cfg = DefaultConfigLiteral

\* The hard-block condition on the row of the call.
HardBlockCondition ==
    /\ Get(row, "chargeback_count", 0) >= cfg.chargeback_hard_block
    /\ Lower(Get(row, "ip_risk", "low")) = "high"

\* The sum of the points of the six assessors and the reasons they gave.
AssessorSum ==
    assessments[1][1] + assessments[2][1] + assessments[3][1] +
    assessments[4][1] + assessments[5][1] + assessments[6][1]
AssessorReasons ==
    assessments[1][2] \o assessments[2][2] \o assessments[3][2] \o
    assessments[4][2] \o assessments[5][2] \o assessments[6][2]

Occurrences(seq, x) == Cardinality({ i \in 1..Len(seq) : seq[i] = x })
Bit(b) == IF b THEN 1 ELSE 0

Reputation == Lower(Get(row, "user_reputation", "new"))
BufferCondition ==
    /\ Reputation \in {"recurrent", "trusted"}
    /\ Get(row, "customer_txn_30d", 0) >= 3
    /\ AssessorSum > 0

Severity(d) ==
    CASE d = DECISION_ACCEPTED -> 0
      [] d = DECISION_IN_REVIEW -> 1
      [] d = DECISION_REJECTED -> 2

reject_at == cfg.score_to_decision.reject_at
review_at == cfg.score_to_decision.review_at

----------------------------------------------------------------------------
(* C1: whenever chargeback_count >= cfg.chargeback_hard_block and ip_risk,  *)
(* lower-cased, is "high", assess_row returns REJECTED with risk_score 100, *)
(* whatever the other fields are.                                           *)
C1_HardBlockRejects ==
    (Returned /\ HardBlockCondition) =>
        /\ res.decision = DECISION_REJECTED
        /\ res.risk_score = 100

\* A hard-blocked row with an upper-case ip_risk and risk signals of its own.
C1_Witness ==
    /\ Returned /\ HardBlockCondition
    /\ Get(row, "ip_risk", "low") = "HIGH"
    /\ Get(row, "user_reputation", "new") = "Trusted"
    /\ Get(row, "amount_mxn", 0) = 500
    /\ res.risk_score = 100

(* C2 as stated: for a row that is not hard-blocked, score < review_at      *)
(* gives ACCEPTED, review_at <= score < reject_at gives IN_REVIEW and       *)
(* score >= reject_at gives REJECTED.                                       *)
C2_Original ==
    Scored =>
        /\ res.risk_score < review_at => res.decision = DECISION_ACCEPTED
        /\ (review_at <= res.risk_score /\ res.risk_score < reject_at)
               => res.decision = DECISION_IN_REVIEW
        /\ res.risk_score >= reject_at => res.decision = DECISION_REJECTED

(* C2 amended: for a row that is not hard-blocked, score >= reject_at gives *)
(* REJECTED (also when the score meets both thresholds), review_at <= score *)
(* < reject_at gives IN_REVIEW, and a score below both thresholds gives     *)
(* ACCEPTED; the decision never decreases in severity as the score grows.   *)
C2_DecisionFromScore ==
    Scored =>
        /\ res.risk_score >= reject_at => res.decision = DECISION_REJECTED
        /\ (review_at <= res.risk_score /\ res.risk_score < reject_at)
               => res.decision = DECISION_IN_REVIEW
        /\ (res.risk_score < review_at /\ res.risk_score < reject_at)
               => res.decision = DECISION_ACCEPTED
        /\ \A s \in (res.risk_score + 1)..(res.risk_score + 12) :
               Severity(_determine_decision(s, cfg)) >= Severity(res.decision)

\* A scored row whose score meets both thresholds exactly at reject_at.
C2_Witness ==
    /\ Scored
    /\ res.risk_score = reject_at
    /\ res.risk_score >= review_at
    /\ res.decision = DECISION_REJECTED

(* C3: in a call that is not hard-blocked the frequency buffer is applied   *)
(* once, after the six assessors are summed; it fires exactly when the      *)
(* lower-cased user_reputation is "recurrent" or "trusted", customer_txn_30d *)
(* >= 3 and the sum is > 0; firing subtracts exactly 1 and appends          *)
(* "frequency_buffer(-1)" as the last reason; it never makes a non-negative *)
(* sum negative.                                                            *)
C3_FrequencyBuffer ==
    Scored =>
        /\ Occurrences(calls, "_apply_frequency_buffer") = 1
        /\ calls[Len(AssessorNames) + 2] = "_apply_frequency_buffer"
        /\ BufferCondition =>
               /\ score = AssessorSum - 1
               /\ reasons = Append(AssessorReasons, "frequency_buffer(-1)")
        /\ ~ BufferCondition =>
               /\ score = AssessorSum
               /\ reasons = AssessorReasons
        /\ Occurrences(reasons, "frequency_buffer(-1)") = Bit(BufferCondition)
        /\ Reputation \in {"new", "high_risk"} => score = AssessorSum
        /\ AssessorSum <= 0 => score = AssessorSum
        /\ AssessorSum >= 0 => score >= 0

\* The buffer fires on a sum of 1 and leaves a score of 0.
C3_Witness ==
    /\ Scored
    /\ Get(row, "user_reputation", "new") = "Trusted"
    /\ BufferCondition
    /\ AssessorSum = 1
    /\ score = 0
    /\ reasons[Len(reasons)] = "frequency_buffer(-1)"

CountryMismatch ==
    /\ Upper(Get(row, "bin_country", "")) # ""
    /\ Upper(Get(row, "ip_country", "")) # ""
    /\ Upper(Get(row, "bin_country", "")) # Upper(Get(row, "ip_country", ""))

GeoReason ==
    "geo_mismatch:" \o Upper(Get(row, "bin_country", "")) \o "!=" \o
    Upper(Get(row, "ip_country", "")) \o "(+" \o
    ToString(cfg.score_weights.geo_mismatch) \o ")"

(* C5: under the default configuration every transaction whose countries    *)
(* are both non-empty and differ is decided IN_REVIEW or REJECTED, has      *)
(* risk_score > 0 and carries a geo mismatch reason; in particular the      *)
(* transaction of test_transaction_bin_ip_country_mismatch.                 *)
C5_MismatchNeverAccepted ==
    (Returned /\ DefaultConfiguration /\ CountryMismatch /\ ~ is_blocked) =>
        /\ res.decision \in {DECISION_IN_REVIEW, DECISION_REJECTED}
        /\ res.risk_score > 0
        /\ Occurrences(reasons, GeoReason) >= 1

(* C6: under the default configuration the risk_score assess_row returns is *)
(* a non-negative integer for every transaction.                            *)
C6_ScoreNonNegative ==
    (Returned /\ DefaultConfiguration) =>
        /\ res.risk_score \in Int
        /\ res.risk_score >= 0

Malformed(v) == v.set /\ IntRaises(v.chars)

(* C7: when REJECT_AT or REVIEW_AT is malformed, loading fails at startup:  *)
(* no transaction is ever scored with the module's configuration.           *)
C7_MalformedOverrideFailsFast ==
    (Returned /\ cfg = DEFAULT_CONFIG) =>
        /\ ~ Malformed(env.REJECT_AT)
        /\ ~ Malformed(env.REVIEW_AT)

\* The entries of the reasons list the call returned, joined by ";".
Entries == IF is_blocked THEN block_reasons ELSE reasons
NonEmptyEntries == Cardinality({ i \in 1..Len(Entries) : Entries[i] # "" })

\* The assessors of the six that contributed non-zero points.
ContributingAssessors ==
    Cardinality({ i \in 1..Len(assessments) : assessments[i][1] # 0 })

BufferFired == ~ is_blocked /\ score # AssessorSum

(* C8 as stated: the number of non-empty reason entries equals the number  *)
(* of assessors that contributed non-zero points, plus one for the          *)
(* frequency buffer when it fires and one for the hard-block when it        *)
(* triggers.                                                                *)
C8_Original ==
    Returned =>
        NonEmptyEntries =
            IF is_blocked THEN 1
            ELSE ContributingAssessors + Bit(BufferFired)

\* The weight the configuration gives the row's value of a categorical field.
CategoricalWeight(field) ==
    Get(cfg.score_weights[field], Lower(Get(row, field, "low")), 0)

HighAmount ==
    LET product_type == Lower(Get(row, "product_type", "_default"))
        thresholds == cfg.amount_thresholds
    IN Get(row, "amount_mxn", 0) >=
           IF product_type \in DOMAIN thresholds
           THEN thresholds[product_type]
           ELSE thresholds["_default"]

\* The point contributions the rules of the engine make for the row, each
\* categorical dimension and each of the two amount rules counted on its own.
Contributions ==
    Bit(CategoricalWeight("ip_risk") # 0) +
    Bit(CategoricalWeight("email_risk") # 0) +
    Bit(CategoricalWeight("device_fingerprint_risk") # 0) +
    Bit(Get(cfg.score_weights.user_reputation, Reputation, 0) # 0) +
    Bit(Get(row, "hour", 12) >= 22 \/ Get(row, "hour", 12) <= 5) +
    Bit(CountryMismatch) +
    Bit(HighAmount) +
    Bit(HighAmount /\ Reputation = "new") +
    Bit(Get(row, "latency_ms", 0) >= cfg.latency_ms_extreme)

(* C8 amended: under the default score weights the number of non-empty      *)
(* reason entries equals the number of non-zero point contributions, where  *)
(* each of the three categorical dimensions and each of high_amount and     *)
(* new_user_high_amount counts on its own, plus one for the frequency       *)
(* buffer when it fires; a hard-blocked call returns exactly one entry.     *)
C8_ReasonCount ==
    Returned =>
        NonEmptyEntries =
            IF is_blocked THEN 1
            ELSE Contributions + Bit(BufferFired)

\* One assessor gave two reasons: more entries than contributing assessors.
C8_Witness ==
    /\ Scored
    /\ Len(assessments[1][2]) = 2
    /\ ContributingAssessors = 2
    /\ BufferFired
    /\ NonEmptyEntries > ContributingAssessors + 1

(* C9: when the hard-block check triggers, assess_row returns before any    *)
(* assessor or the frequency buffer runs, and its reasons are the single    *)
(* entry "hard_block:chargebacks>=<threshold>+ip_high" with the threshold   *)
(* of the configuration passed to the call.                                 *)
C9_HardBlockReason ==
    (Returned /\ is_blocked) =>
        /\ calls = << "_check_hard_block" >>
        /\ res.reasons = "hard_block:chargebacks>=" \o
                         ToString(cfg.chargeback_hard_block) \o "+ip_high"

(* C10: the amount assessor adds the high_amount weight exactly when        *)
(* amount_mxn >= the threshold of the lower-cased product_type (the         *)
(* "_default" threshold for a product type that is not configured), and the *)
(* new_user_high_amount weight only when that holds and the lower-cased     *)
(* user_reputation is "new"; the new_user_high_amount reason never appears  *)
(* without the high_amount reason right before it.                          *)
C10_AmountAssessor ==
    Scored =>
        LET points == assessments[5][1]
            given == assessments[5][2]
            w == cfg.score_weights
            high_reason ==
                "high_amount:" \o Lower(Get(row, "product_type", "_default")) \o
                ":" \o ToString(Get(row, "amount_mxn", 0)) \o ".0(+" \o
                ToString(w.high_amount) \o ")"
            new_reason ==
                "new_user_high_amount(+" \o ToString(w.new_user_high_amount) \o ")"
        IN /\ points = Bit(HighAmount) * w.high_amount +
                       Bit(HighAmount /\ Reputation = "new") * w.new_user_high_amount
           /\ given = (IF HighAmount THEN << high_reason >> ELSE <<>>) \o
                      (IF HighAmount /\ Reputation = "new"
                       THEN << new_reason >> ELSE <<>>)
           /\ \A i \in 1..Len(reasons) :
                  reasons[i] = new_reason =>
                      i > 1 /\ reasons[i - 1] = high_reason

\* A new user's amount equal to the "_default" threshold of an unconfigured
\* product type gets both weights.
C10_Witness ==
    /\ Scored
    /\ Get(row, "product_type", "_default") = "gift"
    /\ Get(row, "amount_mxn", 0) = cfg.amount_thresholds["_default"]
    /\ Get(row, "user_reputation", "new") = "new"
    /\ assessments[5][1] = 4
    /\ Len(assessments[5][2]) = 2

====
